---------------------------- MODULE Spec2Model ----------------------------
(***************************************************************************)
(* zod-cast: the validation-and-retry loop (createTunnel / run) and the    *)
(* tolerant JSON extraction it rests on.                                   *)
(*                                                                         *)
(* A text is a sequence of tokens.  A token is either one character of     *)
(* Alphabet (what the model, the user or the system prompt can write) or   *)
(* one of the fixed literals the code pastes into prompts and messages     *)
(* ("Your previous response was invalid.", ...), kept whole.  Indices are  *)
(* the 0-based indices of the source; CharAt and Slice translate them.     *)
(***************************************************************************)
EXTENDS Integers, Sequences, FiniteSets, TLC

(***************************************************************************)
(* Bounds of the model and constants of the program                        *)
(***************************************************************************)
\* largest configured maxRetries explored
MaxRetriesBound == 2
\* the small maxFailureOutputChars explored beside the default
SmallMaxChars == 2
\* options.maxRetries ?? 2
DefaultMaxRetries == 2
\* options.maxFailureOutputChars ?? 4000
DefaultMaxFailureOutputChars == 4000

Alphabet == {"{", "}", "[", "]", "\"", "\\", ":", ",", " ", "a", "b", "1"}

(***************************************************************************)
(* Strings                                                                 *)
(***************************************************************************)
CharAt(text, i) == text[i + 1]

\* String.prototype.slice(a, b) for 0 <= a <= b
Slice(text, a, b) == SubSeq(text, a + 1, IF b > Len(text) THEN Len(text) ELSE b)

\* String.prototype.indexOf for a one-character needle
IndexOf(text, ch) ==
    IF \E i \in 0..(Len(text) - 1) : CharAt(text, i) = ch
    THEN CHOOSE i \in 0..(Len(text) - 1) :
            /\ CharAt(text, i) = ch
            /\ \A j \in 0..(i - 1) : CharAt(text, j) # ch
    ELSE -1

\* String.prototype.includes
Contains(text, needle) ==
    \E i \in 0..(Len(text) - Len(needle)) :
        SubSeq(text, i + 1, i + Len(needle)) = needle

IsSpace(ch) == ch = " "

RECURSIVE TrimStart(_)
TrimStart(text) ==
    IF text # <<>> /\ IsSpace(Head(text)) THEN TrimStart(Tail(text)) ELSE text

RECURSIVE TrimEnd(_)
TrimEnd(text) ==
    IF text # <<>> /\ IsSpace(text[Len(text)])
    THEN TrimEnd(SubSeq(text, 1, Len(text) - 1))
    ELSE text

\* String.prototype.trim
Trim(text) == TrimEnd(TrimStart(text))

\* Array.prototype.join
RECURSIVE Join(_, _)
Join(parts, sep) ==
    IF parts = <<>> THEN <<>>
    ELSE IF Len(parts) = 1 THEN parts[1]
    ELSE parts[1] \o sep \o Join(Tail(parts), sep)

(***************************************************************************)
(* internal/json.ts: extractJsonText                                       *)
(***************************************************************************)
NoSpan == [found |-> FALSE, text |-> <<>>]

\* the last four lines of findJsonStartIndex, on the two indexOf results
EarlierIndex(obj, arr) ==
    IF obj = -1 /\ arr = -1 THEN -1
    ELSE IF obj = -1 THEN arr
    ELSE IF arr = -1 THEN obj
    ELSE IF obj < arr THEN obj ELSE arr

\* null is -1
findJsonStartIndex(text) == EarlierIndex(IndexOf(text, "{"), IndexOf(text, "["))

ScanInit == [inString |-> FALSE, escaped |-> FALSE, depth |-> 0, closed |-> FALSE]

\* variant: a scan with one counter for braces and none for brackets
ScanStepOfBracesOnly(s, ch) ==
    IF s.inString
    THEN IF s.escaped THEN [s EXCEPT !.escaped = FALSE]
         ELSE IF ch = "\\" THEN [s EXCEPT !.escaped = TRUE]
         ELSE IF ch = "\"" THEN [s EXCEPT !.inString = FALSE]
         ELSE s
    ELSE IF ch = "\"" THEN [s EXCEPT !.inString = TRUE]
    ELSE IF ch = "{" THEN [s EXCEPT !.depth = s.depth + 1]
    ELSE IF ch = "}"
         THEN [s EXCEPT !.depth = s.depth - 1, !.closed = (s.depth - 1 = 0)]
    ELSE s

\* variant: a scan in which a backslash does not escape the next character
ScanStepWithoutEscapes(s, ch) ==
    IF s.inString
    THEN IF ch = "\"" THEN [s EXCEPT !.inString = FALSE] ELSE s
    ELSE IF ch = "\"" THEN [s EXCEPT !.inString = TRUE]
    ELSE IF ch \in {"{", "["} THEN [s EXCEPT !.depth = s.depth + 1]
    ELSE IF ch \in {"}", "]"}
         THEN [s EXCEPT !.depth = s.depth - 1, !.closed = (s.depth - 1 = 0)]
    ELSE s

\* one iteration of the for loop of extractJsonText on character ch;
\* closed says that the iteration returns the span
ScanStep(s, ch) ==
    IF s.inString
    THEN IF s.escaped THEN [s EXCEPT !.escaped = FALSE]
         ELSE IF ch = "\\" THEN [s EXCEPT !.escaped = TRUE]
         ELSE IF ch = "\"" THEN [s EXCEPT !.inString = FALSE]
         ELSE s
    ELSE IF ch = "\"" THEN [s EXCEPT !.inString = TRUE]
    ELSE IF ch \in {"{", "["} THEN [s EXCEPT !.depth = s.depth + 1]
    ELSE IF ch \in {"}", "]"}
         THEN [s EXCEPT !.depth = s.depth - 1, !.closed = (s.depth - 1 = 0)]
    ELSE s

\* the for loop from index i, s being the scan state after character i - 1:
\* the index of the closing character, or -1 when the text ends first
RECURSIVE ScanFrom(_, _, _)
ScanFrom(text, i, s) ==
    IF s.closed THEN i - 1
    ELSE IF i >= Len(text) THEN -1
    ELSE ScanFrom(text, i + 1, ScanStep(s, CharAt(text, i)))

\* the scan states after each iteration of the for loop from index i, up to
\* the iteration that returns the span or to the end of the text
RECURSIVE ScanTrace(_, _, _)
ScanTrace(text, i, s) ==
    IF s.closed \/ i >= Len(text) THEN <<>>
    ELSE << ScanStep(s, CharAt(text, i)) >>
         \o ScanTrace(text, i + 1, ScanStep(s, CharAt(text, i)))

\* the scan states of extractJsonText(text), none when it returns at once
TraceFrom(text, start) ==
    IF start = -1 THEN <<>> ELSE ScanTrace(text, start, ScanInit)

SpanTo(text, start, end) ==
    IF end = -1 THEN NoSpan
    ELSE [found |-> TRUE, text |-> Slice(text, start, end + 1)]

SpanFrom(text, start) ==
    IF start = -1 THEN NoSpan
    ELSE SpanTo(text, start, ScanFrom(text, start, ScanInit))

extractJsonText(text) == SpanFrom(text, findJsonStartIndex(text))

(***************************************************************************)
(* JSON.parse, on texts over Alphabet.  A decoded value is a record        *)
(* [t, s, kids]: t the type, s the characters of a number or string, kids  *)
(* the members of an object or array as <<[k |-> key, v |-> value]>>.      *)
(***************************************************************************)
JNum(digits) == [t |-> "number", s |-> digits, kids |-> <<>>]
JStr(chars) == [t |-> "string", s |-> chars, kids |-> <<>>]
JArr(items) == [t |-> "array", s |-> <<>>, kids |-> items]
JObj(members) == [t |-> "object", s |-> <<>>, kids |-> members]
Undefined == [t |-> "undefined", s |-> <<>>, kids |-> <<>>]

Digits == {"1"}

\* a decode step: the value and the index after it, or the index it failed at
ParseFail(i) == [ok |-> FALSE, v |-> Undefined, i |-> i]
ParseOk(v, i) == [ok |-> TRUE, v |-> v, i |-> i]

RECURSIVE SkipWs(_, _)
SkipWs(t, i) ==
    IF i < Len(t) /\ IsSpace(CharAt(t, i)) THEN SkipWs(t, i + 1) ELSE i

\* the characters of a string literal after its opening quote
RECURSIVE ParseStringBody(_, _, _)
ParseStringBody(t, j, acc) ==
    IF j >= Len(t) THEN ParseFail(j)
    ELSE IF CharAt(t, j) = "\"" THEN ParseOk(JStr(acc), j + 1)
    ELSE IF CharAt(t, j) = "\\"
         THEN IF j + 1 >= Len(t) THEN ParseFail(j + 1)
              ELSE IF CharAt(t, j + 1) \in {"\"", "\\"}
                   THEN ParseStringBody(t, j + 2, Append(acc, CharAt(t, j + 1)))
                   ELSE ParseFail(j + 1)
    ELSE ParseStringBody(t, j + 1, Append(acc, CharAt(t, j)))

RECURSIVE ParseDigits(_, _, _)
ParseDigits(t, j, acc) ==
    IF j < Len(t) /\ CharAt(t, j) \in Digits
    THEN ParseDigits(t, j + 1, Append(acc, CharAt(t, j)))
    ELSE ParseOk(JNum(acc), j)

\* an object keeps one member per key: a repeated key overwrites in place
SetMember(members, key, val) ==
    IF \E n \in 1..Len(members) : members[n].k = key
    THEN [n \in 1..Len(members) |->
            IF members[n].k = key THEN [k |-> key, v |-> val] ELSE members[n]]
    ELSE Append(members, [k |-> key, v |-> val])

RECURSIVE ParseValue(_, _)
RECURSIVE ParseMembers(_, _, _)
RECURSIVE ParseElements(_, _, _)

\* after a member's value and white space, at e: "}" or "," is expected
MemberEnd(t, acc, e) ==
    IF e >= Len(t) THEN ParseFail(e)
    ELSE IF CharAt(t, e) = "}" THEN ParseOk(JObj(acc), e + 1)
    ELSE IF CharAt(t, e) = "," THEN ParseMembers(t, SkipWs(t, e + 1), acc)
    ELSE ParseFail(e)

AfterMemberValue(t, acc, key, val) ==
    IF ~val.ok THEN val
    ELSE MemberEnd(t, SetMember(acc, key, val.v), SkipWs(t, val.i))

\* after a member's key and white space, at c: ":" is expected
AfterKeySpace(t, acc, key, c) ==
    IF c >= Len(t) \/ CharAt(t, c) # ":" THEN ParseFail(c)
    ELSE AfterMemberValue(t, acc, key, ParseValue(t, c + 1))

AfterKey(t, acc, key) ==
    IF ~key.ok THEN key ELSE AfterKeySpace(t, acc, key.v.s, SkipWs(t, key.i))

\* the members of an object from index k, where a key is expected
ParseMembers(t, k, acc) ==
    IF k >= Len(t) \/ CharAt(t, k) # "\"" THEN ParseFail(k)
    ELSE AfterKey(t, acc, ParseStringBody(t, k + 1, <<>>))

\* after an element and white space, at e: "]" or "," is expected
ElementEnd(t, acc, e) ==
    IF e >= Len(t) THEN ParseFail(e)
    ELSE IF CharAt(t, e) = "]" THEN ParseOk(JArr(acc), e + 1)
    ELSE IF CharAt(t, e) = "," THEN ParseElements(t, e + 1, acc)
    ELSE ParseFail(e)

AfterElement(t, acc, val) ==
    IF ~val.ok THEN val
    ELSE ElementEnd(t, Append(acc, [k |-> <<>>, v |-> val.v]), SkipWs(t, val.i))

\* the elements of an array from index k, where a value is expected
ParseElements(t, k, acc) == AfterElement(t, acc, ParseValue(t, k))

\* after "{" and white space, at k
ObjectBody(t, k) ==
    IF k < Len(t) /\ CharAt(t, k) = "}" THEN ParseOk(JObj(<<>>), k + 1)
    ELSE ParseMembers(t, k, <<>>)

\* after "[" and white space, at k
ArrayBody(t, k) ==
    IF k < Len(t) /\ CharAt(t, k) = "]" THEN ParseOk(JArr(<<>>), k + 1)
    ELSE ParseElements(t, k, <<>>)

\* a value whose first character is at i
ValueAt(t, i) ==
    IF i >= Len(t) THEN ParseFail(i)
    ELSE IF CharAt(t, i) = "{" THEN ObjectBody(t, SkipWs(t, i + 1))
    ELSE IF CharAt(t, i) = "[" THEN ArrayBody(t, SkipWs(t, i + 1))
    ELSE IF CharAt(t, i) = "\"" THEN ParseStringBody(t, i + 1, <<>>)
    ELSE IF CharAt(t, i) \in Digits THEN ParseDigits(t, i, <<>>)
    ELSE ParseFail(i)

ParseValue(t, i) == ValueAt(t, SkipWs(t, i))

\* the SyntaxError of a decode that failed at index i
SyntaxError(t, i) ==
    [threw |-> TRUE, value |-> Undefined,
     message |-> IF i >= Len(t) THEN <<"Unexpected end of JSON input">>
                 ELSE <<"Unexpected token ", CharAt(t, i), " in JSON">>]

\* after the value and white space, at e: the end of the text is expected
DocumentEnd(t, v, e) ==
    IF e < Len(t) THEN SyntaxError(t, e)
    ELSE [threw |-> FALSE, value |-> v, message |-> <<>>]

Document(t, r) ==
    IF ~r.ok THEN SyntaxError(t, r.i) ELSE DocumentEnd(t, r.v, SkipWs(t, r.i))

\* JSON.parse(t): [threw, value, message]
JsonParse(t) == Document(t, ParseValue(t, 0))

(***************************************************************************)
(* internal/json.ts: extractAndParseJson                                   *)
(***************************************************************************)
NoJsonMessage == <<"No JSON object/array found in model output.">>

\* the try / catch around JSON.parse(jsonText)
Decoded(jsonText, parsed) ==
    IF parsed.threw
    THEN [ok |-> FALSE, reason |-> "invalid_json", message |-> parsed.message,
          hasJsonText |-> TRUE, jsonText |-> jsonText, value |-> Undefined]
    ELSE [ok |-> TRUE, reason |-> "", message |-> <<>>,
          hasJsonText |-> TRUE, jsonText |-> jsonText, value |-> parsed.value]

Extracted(span) ==
    IF ~span.found \/ span.text = <<>>
    THEN [ok |-> FALSE, reason |-> "no_json", message |-> NoJsonMessage,
          hasJsonText |-> FALSE, jsonText |-> <<>>, value |-> Undefined]
    ELSE Decoded(span.text, JsonParse(span.text))

extractAndParseJson(text) == Extracted(extractJsonText(text))

(***************************************************************************)
(* The schema handed to createTunnel: z.object({ a: z.number() }), the     *)
(* schema of the repository's tests.  A field is [key, kind].              *)
(***************************************************************************)
TheSchema == << [key |-> <<"a">>, kind |-> "number"] >>

HasMember(v, key) == \E n \in 1..Len(v.kids) : v.kids[n].k = key

Member(v, key) == (CHOOSE m \in {v.kids[n] : n \in 1..Len(v.kids)} : m.k = key).v

\* an accessor of an issue path: the key of a field or the index of an element
Key(k) == [index |-> FALSE, key |-> k, n |-> 0]

Index(n) == [index |-> TRUE, key |-> <<>>, n |-> n]

\* the issues of field f against object v
FieldIssue(f, v) ==
    IF ~HasMember(v, f.key)
    THEN << [path |-> <<Key(f.key)>>, message |-> <<"Required">>] >>
    ELSE IF Member(v, f.key).t # f.kind
         THEN << [path |-> <<Key(f.key)>>,
                  message |-> <<"Expected ", f.kind, ", received ",
                                Member(v, f.key).t>>] >>
         ELSE <<>>

\* the issues of the fields from the n-th on, in the order of the shape
RECURSIVE FieldIssues(_, _, _)
FieldIssues(schema, n, v) ==
    IF n > Len(schema) THEN <<>>
    ELSE FieldIssue(schema[n], v) \o FieldIssues(schema, n + 1, v)

\* an object schema strips the keys its shape does not name
ObjectResult(schema, v, issues) ==
    IF issues # <<>>
    THEN [success |-> FALSE, data |-> Undefined, issues |-> issues]
    ELSE [success |-> TRUE,
          data |-> JObj([n \in 1..Len(schema) |->
                            [k |-> schema[n].key, v |-> Member(v, schema[n].key)]]),
          issues |-> <<>>]

\* schema.safeParse(v): [success, data, issues]
SchemaSafeParse(schema, v) ==
    IF v.t # "object"
    THEN [success |-> FALSE, data |-> Undefined,
          issues |-> << [path |-> <<>>,
                         message |-> <<"Expected object, received ", v.t>>] >>]
    ELSE ObjectResult(schema, v, FieldIssues(schema, 1, v))

Parsed(r) == [threw |-> ~r.success, data |-> r.data]

\* schema.parse(v): the data, or a thrown ZodError
SchemaParse(schema, v) == Parsed(SchemaSafeParse(schema, v))

(***************************************************************************)
(* internal/json.ts: formatZodIssues                                       *)
(***************************************************************************)
DecimalDigits == <<"0", "1", "2", "3", "4", "5", "6", "7", "8", "9">>

\* String(n) for an array index
RECURSIVE NumberToString(_)
NumberToString(n) ==
    IF n < 10 THEN << DecimalDigits[n + 1] >>
    ELSE NumberToString(n \div 10) \o << DecimalDigits[(n % 10) + 1] >>

\* what join makes of one accessor
AccessorToString(a) == IF a.index THEN NumberToString(a.n) ELSE a.key

\* variant: a line that names the last accessor of the path only
FormatIssueLineOfLastAccessor(issue) ==
    <<"- ">>
    \o (IF Len(issue.path) > 0
        THEN AccessorToString(issue.path[Len(issue.path)]) ELSE <<"<root>">>)
    \o <<": ">> \o issue.message

FormatIssueLine(issue) ==
    <<"- ">>
    \o (IF Len(issue.path) > 0
        THEN Join([n \in 1..Len(issue.path) |-> AccessorToString(issue.path[n])],
                  <<".">>)
        ELSE <<"<root>">>)
    \o <<": ">> \o issue.message

formatZodIssues(issues) ==
    Join([n \in 1..Len(issues) |-> FormatIssueLine(issues[n])], <<"\n">>)

(***************************************************************************)
(* internal/zod-to-ts.ts, for object schemas of primitive fields           *)
(***************************************************************************)
\* renderType's object case at depth 0
renderType(schema) ==
    IF Len(schema) = 0 THEN <<"{} ">>
    ELSE <<"{", "\n">>
         \o Join([n \in 1..Len(schema) |->
                    <<"  ">> \o schema[n].key \o <<": ", schema[n].kind, ";">>],
                 <<"\n">>)
         \o <<"\n", "}">>

zodSchemaToTypeScript(schema, name) ==
    <<"export interface ">> \o name \o <<" ">> \o renderType(schema)

(***************************************************************************)
(* index.ts: createTunnel                                                  *)
(***************************************************************************)
\* TunnelOptions; has* tells whether the option is given, and an option
\* that is not given holds no value
OptionsSet ==
    [hasMaxRetries : BOOLEAN, maxRetries : 0..MaxRetriesBound,
     systemPrompt : {<<>>, <<" ", "b", " ">>},
     hasMaxFailureOutputChars : BOOLEAN, maxFailureOutputChars : {0, SmallMaxChars}]

\* the tunnels explored: every maxRetries, given or not, with no other
\* option, and with a system prompt and a small maxFailureOutputChars
Options ==
    {o \in OptionsSet :
        /\ ~o.hasMaxRetries => o.maxRetries = 0
        /\ o.hasMaxFailureOutputChars <=> o.maxFailureOutputChars # 0
        /\ o.hasMaxFailureOutputChars <=> o.systemPrompt # <<>>}

\* options.maxRetries ?? 2
MaxRetriesOf(options) ==
    IF options.hasMaxRetries THEN options.maxRetries ELSE DefaultMaxRetries

\* options.maxFailureOutputChars ?? 4000
MaxFailureOutputCharsOf(options) ==
    IF options.hasMaxFailureOutputChars THEN options.maxFailureOutputChars
    ELSE DefaultMaxFailureOutputChars

\* the Markdown fence, three backquotes, which a TLA+ string cannot hold
Fence == "<fence>"

StrictRules(schemaTs) ==
    Join(<< <<"Return ONLY a valid JSON value that can be parsed by JSON.parse().">>,
            <<"Do not wrap the JSON in Markdown fences.">>,
            <<"The JSON MUST conform to this TypeScript definition:">>,
            <<Fence, "ts", "\n">> \o schemaTs \o <<"\n", Fence>> >>,
         <<"\n">>)

\* what the closures of one tunnel hold, schemaTs rendered once
Tunnel(schema, options, schemaTs) ==
    [schema |-> schema, options |-> options,
     maxRetries |-> MaxRetriesOf(options),
     schemaTs |-> schemaTs, STRICT_RULES |-> StrictRules(schemaTs)]

createTunnel(schema, options) ==
    Tunnel(schema, options, zodSchemaToTypeScript(schema, <<"Output">>))

\* if (options.systemPrompt?.trim()) parts.push(options.systemPrompt.trim())
SystemPart(t) ==
    IF Trim(t.options.systemPrompt) # <<>>
    THEN << Trim(t.options.systemPrompt) >> ELSE <<>>

\* parts.join("\n\n")
Blank == <<"\n", "\n">>

buildBasePrompt(t, userPrompt) ==
    Join(SystemPart(t)
         \o << t.STRICT_RULES >>
         \o (IF Trim(userPrompt) # <<>> THEN << Trim(userPrompt) >> ELSE <<>>),
         Blank)

TruncationMarker == <<"\n", "...<truncated>">>

\* variant: a truncate that also cuts an output of exactly max characters
truncateStrict(s, max) ==
    IF Len(s) < max THEN s ELSE Slice(s, 0, max) \o TruncationMarker

truncate(s, max) ==
    IF Len(s) <= max THEN s ELSE Slice(s, 0, max) \o TruncationMarker

Preamble == <<"Your previous response was invalid.">>
ProblemsLabel == <<"Validation problems:", "\n">>
IssuesLabel == <<"Schema issues:", "\n">>
ContextLabel == <<"Original request context:", "\n">>
PreviousLabel == <<"Previous output:", "\n", Fence, "text", "\n">>
PreviousEnd == <<"\n", Fence>>

\* variant: a buildFixPrompt that adds the issues section for every failure with a span
buildFixPromptIssuesOfAnySpan(t, userPrompt, failure) ==
    Join(SystemPart(t)
         \o << Preamble, <<"Return ONLY corrected JSON.">>, t.STRICT_RULES >>
         \o << ProblemsLabel \o failure.message >>
         \o (IF failure.type # "no_json"
             THEN << IssuesLabel \o failure.issues >> ELSE <<>>)
         \o (IF Trim(userPrompt) # <<>>
             THEN << ContextLabel \o Trim(userPrompt) >> ELSE <<>>)
         \o << PreviousLabel
               \o truncate(failure.raw, MaxFailureOutputCharsOf(t.options))
               \o PreviousEnd >>,
         Blank)

buildFixPrompt(t, userPrompt, failure) ==
    Join(SystemPart(t)
         \o << Preamble, <<"Return ONLY corrected JSON.">>, t.STRICT_RULES >>
         \o << ProblemsLabel \o failure.message >>
         \o (IF failure.type = "schema"
             THEN << IssuesLabel \o failure.issues >> ELSE <<>>)
         \o (IF Trim(userPrompt) # <<>>
             THEN << ContextLabel \o Trim(userPrompt) >> ELSE <<>>)
         \o << PreviousLabel
               \o truncate(failure.raw, MaxFailureOutputCharsOf(t.options))
               \o PreviousEnd >>,
         Blank)

\* null
NoFailure ==
    [type |-> "null", message |-> <<>>, raw |-> <<>>, hasJsonText |-> FALSE,
     jsonText |-> <<>>, issues |-> <<>>]

SchemaMessage == <<"Output JSON did not match the schema.">>

\* lines 123 to 134 of failureFromRaw, on the result of safeParse
SchemaFailure(raw, jsonText, validated) ==
    IF validated.success THEN NoFailure
    ELSE [type |-> "schema", message |-> SchemaMessage, raw |-> raw,
          hasJsonText |-> TRUE, jsonText |-> jsonText,
          issues |-> formatZodIssues(validated.issues)]

\* variant: a failureFromRaw that reports every output without a decoded value as invalid_json
FailureOfOneKind(t, raw, extracted) ==
    IF ~extracted.ok
    THEN [type |-> "invalid_json", message |-> extracted.message, raw |-> raw,
          hasJsonText |-> extracted.hasJsonText, jsonText |-> extracted.jsonText,
          issues |-> <<>>]
    ELSE SchemaFailure(raw, extracted.jsonText,
                       SchemaSafeParse(t.schema, extracted.value))

\* failureFromRaw after its first line
FailureOf(t, raw, extracted) ==
    IF ~extracted.ok
    THEN [type |-> extracted.reason, message |-> extracted.message, raw |-> raw,
          hasJsonText |-> extracted.hasJsonText, jsonText |-> extracted.jsonText,
          issues |-> <<>>]
    ELSE SchemaFailure(raw, extracted.jsonText,
                       SchemaSafeParse(t.schema, extracted.value))

\* failureFromRaw(raw): the failure record, or NoFailure for null
failureFromRaw(t, raw) == FailureOf(t, raw, extractAndParseJson(raw))

(***************************************************************************)
(* index.ts: run.  A run is a record: the locals of run() (attempt,        *)
(* failures, lastFailure, originalPromptIntent), where it stands (pc) and  *)
(* how it ended (result, error), followed by what an observer of the run   *)
(* has seen: the contexts the runner was invoked with (invocations), the   *)
(* raw outputs it returned (raws), the latest injectSchema call of the     *)
(* attempt in flight (lastCall), the trimmed non-empty texts passed to the *)
(* injectSchema closure of attempt 0 (supplied0), the first of them passed  *)
(* while attempt 0 was in flight (captured) and the error the runner       *)
(* threw, if it did (thrown).                                              *)
(***************************************************************************)
NoCall == [cap |-> -1, text |-> <<>>, prompt |-> <<>>]
NoError == [name |-> "", message |-> <<>>, failures |-> <<>>]

IdleRun ==
    [pc |-> "idle", attempt |-> 0, failures |-> <<>>, lastFailure |-> NoFailure,
     originalPromptIntent |-> <<>>, result |-> Undefined, error |-> NoError,
     invocations |-> <<>>, raws |-> <<>>, lastCall |-> NoCall, supplied0 |-> {},
     captured |-> <<>>,
     thrown |-> ""]

\* variant: a context that keeps the first failure of the run as lastFailure
ContextOfFirstFailure(t, run) ==
    [attempt |-> run.attempt, maxRetries |-> t.maxRetries,
     lastFailure |-> IF run.failures = <<>> THEN NoFailure ELSE run.failures[1]]

\* const context = { attempt, maxRetries, lastFailure }
Context(t, run) ==
    [attempt |-> run.attempt, maxRetries |-> t.maxRetries,
     lastFailure |-> run.lastFailure]

\* variant: a loop that invokes the runner for two attempts at once, without
\* awaiting the first
InvokeRunnerWithoutAwait(t, run) ==
    [run EXCEPT !.pc = "awaiting",
                !.invocations = Append(Append(@, Context(t, run)),
                                       Context(t, [run EXCEPT !.attempt = @ + 1]))]

\* the loop body down to the await: the runner is invoked with the context
InvokeRunner(t, run) ==
    [run EXCEPT !.pc = "awaiting",
                !.invocations = Append(@, Context(t, run))]

\* run(runner) down to its first await
StartRun(t, run) ==
    InvokeRunner(t, [run EXCEPT !.failures = <<>>, !.lastFailure = NoFailure,
                                !.originalPromptIntent = <<>>, !.attempt = 0])

\* variant: an injectSchema that falls back on the text it is given when no
\* intent was locked
injectSchemaOfFallbackText(t, run, cap, userPrompt) ==
    [intent |-> IF cap = 0 /\ Len(Trim(userPrompt)) > 0 THEN Trim(userPrompt)
                ELSE run.originalPromptIntent,
     prompt |-> IF cap = 0 THEN buildBasePrompt(t, Trim(userPrompt))
                ELSE buildFixPrompt(t, IF run.originalPromptIntent # <<>>
                                       THEN run.originalPromptIntent
                                       ELSE Trim(userPrompt),
                                    run.lastFailure)]

\* variant: an injectSchema whose corrective prompt is built from the first
\* failure of the run
injectSchemaOfFirstFailure(t, run, cap, userPrompt) ==
    [intent |-> IF cap = 0 /\ Len(Trim(userPrompt)) > 0 THEN Trim(userPrompt)
                ELSE run.originalPromptIntent,
     prompt |-> IF cap = 0 THEN buildBasePrompt(t, Trim(userPrompt))
                ELSE buildFixPrompt(t, run.originalPromptIntent, run.failures[1])]

\* variant: an injectSchema that reads the loop counter when called, not when created
injectSchemaOfCurrentAttempt(t, run, cap, userPrompt) ==
    [intent |-> IF run.attempt = 0 /\ Len(Trim(userPrompt)) > 0 THEN Trim(userPrompt)
                ELSE run.originalPromptIntent,
     prompt |-> IF run.attempt = 0 THEN buildBasePrompt(t, Trim(userPrompt))
                ELSE buildFixPrompt(t, run.originalPromptIntent, run.lastFailure)]

\* variant: an injectSchema whose corrective prompt embeds the text it is given
injectSchemaOfGivenText(t, run, cap, userPrompt) ==
    [intent |-> IF cap = 0 /\ Len(Trim(userPrompt)) > 0 THEN Trim(userPrompt)
                ELSE run.originalPromptIntent,
     prompt |-> IF cap = 0 THEN buildBasePrompt(t, Trim(userPrompt))
                ELSE buildFixPrompt(t, Trim(userPrompt), run.lastFailure)]

\* the injectSchema closure created in iteration cap (its attempt is cap),
\* called with userPrompt while the locals of run() are those of run: the
\* originalPromptIntent it leaves and the prompt it returns
injectSchema(t, run, cap, userPrompt) ==
    [intent |-> IF cap = 0 /\ Len(Trim(userPrompt)) > 0 THEN Trim(userPrompt)
                ELSE run.originalPromptIntent,
     prompt |-> IF cap = 0 THEN buildBasePrompt(t, Trim(userPrompt))
                ELSE buildFixPrompt(t, run.originalPromptIntent, run.lastFailure)]

\* throw new TunnelMaxRetriesError(...)
Exhausted(t, run) ==
    [run EXCEPT !.pc = "rejected",
                !.error = [name |-> "TunnelMaxRetriesError",
                           message |-> <<"Failed to produce valid output after ",
                                         ToString(t.maxRetries + 1), " attempts.">>,
                           failures |-> run.failures]]

\* variant: a loop that stops one attempt early (attempt < maxRetries)
NextIterationStrict(t, run) ==
    IF run.attempt < t.maxRetries THEN InvokeRunner(t, run) ELSE Exhausted(t, run)

\* attempt <= maxRetries, then the next iteration or the throw after the loop
NextIteration(t, run) ==
    IF run.attempt <= t.maxRetries THEN InvokeRunner(t, run) ELSE Exhausted(t, run)

\* failures.push(failure); lastFailure = failure; attempt++
Failed(run, failure) ==
    [run EXCEPT !.failures = Append(@, failure),
                !.lastFailure = failure,
                !.attempt = @ + 1]

\* variant: a success path whose second validation rejects a value with keys
\* that the first one strips
RevalidateStrictly(t, extracted) ==
    IF extracted.ok /\ extracted.value.t = "object"
       /\ Len(extracted.value.kids) > Len(t.schema)
    THEN [threw |-> TRUE, data |-> Undefined]
    ELSE SchemaParse(t.schema, IF extracted.ok THEN extracted.value ELSE Undefined)

\* variant: a success path that validates undefined in place of the decoded value
RevalidateUndecoded(t, extracted) ==
    SchemaParse(t.schema, IF extracted.ok THEN Undefined ELSE extracted.value)

\* schema.parse(extracted.ok ? extracted.value : undefined)
Revalidate(t, extracted) ==
    SchemaParse(t.schema, IF extracted.ok THEN extracted.value ELSE Undefined)

\* variant: a success path that returns the decoded value without schema.parse
SecondPassUnvalidated(t, raw) ==
    [threw |-> FALSE, data |-> extractAndParseJson(raw).value]

\* the success path: the raw output is extracted and validated again
SecondPass(t, raw) == Revalidate(t, extractAndParseJson(raw))

\* return validated, or the ZodError of schema.parse leaves run()
Succeed(run, validated) ==
    IF validated.threw
    THEN [run EXCEPT !.pc = "rejected",
                     !.error = [name |-> "ZodError", message |-> <<>>,
                                failures |-> <<>>]]
    ELSE [run EXCEPT !.pc = "resolved", !.result = validated.data]

\* the loop body after const failure = failureFromRaw(raw)
Settle(t, run, raw, failure) ==
    IF failure = NoFailure THEN Succeed(run, SecondPass(t, raw))
    ELSE NextIteration(t, Failed(run, failure))

\* the await resolved with raw: the loop body from there to the next await,
\* the return or the throw
AfterRunner(t, run, raw) ==
    Settle(t, [run EXCEPT !.raws = Append(@, raw), !.lastCall = NoCall],
           raw, failureFromRaw(t, raw))

\* variant: a run that catches the runner's error, records a failure and goes on
RunnerThrewRecorded(t, run, err) ==
    NextIteration(t, Failed([run EXCEPT !.lastCall = NoCall],
                            [NoFailure EXCEPT !.type = "no_json"]))

\* the await threw err: nothing in run() catches it
RunnerThrew(t, run, err) ==
    [run EXCEPT !.pc = "rejected",
                !.lastCall = NoCall,
                !.error = [name |-> err, message |-> <<>>, failures |-> <<>>]]

(***************************************************************************)
(* What the runner can do                                                  *)
(***************************************************************************)
UserTexts == {<<>>, <<" ", "a", " ">>, <<"b">>}

RawOutputs ==
    { <<"a">>,
      <<"{", "a">>,
      <<"{", "\"", "a", "\"", ":", "1", "}">>,
      <<"a", " ", "{", "\"", "a", "\"", ":", "1", ",", "\"", "b", "\"", ":", "1", "}", " ", "a">>,
      <<"{", "\"", "a", "\"", ":", "\"", "}", "\"", "}">>,
      <<"[", "1", "]">>,
      <<"{", "\"", "a", "\"", ":", "1", ",", "}">> }

RunnerErrors == {"RunnerError"}

(***************************************************************************)
(* The state machine                                                       *)
(***************************************************************************)
VARIABLES tunnel, runs, alone, extraction, formatting, validator

vars == <<tunnel, runs, alone, extraction, formatting, validator>>

\* the calls of the pure functions of internal/json.ts, taken on their own
pure == <<extraction, formatting>>

\* no pure function is being looked at
NoPure == extraction = <<>> /\ formatting = <<>>

\* no stream validator exists
NoStream == validator = <<>>

\* no tunnel exists
NoTunnel == tunnel = <<>> /\ runs = <<>> /\ alone = <<>>

\* the variables of the other specifications, which run() leaves alone
outside == <<alone, pure, validator>>

\* the calls of run() on the tunnel
RunIds == {1}

Init ==
    /\ tunnel \in {createTunnel(TheSchema, o) : o \in Options}
    /\ runs = [r \in RunIds |-> IdleRun]
    /\ alone = <<>>
    /\ NoPure /\ NoStream

\* tunnel.run(runner) is called
Run(r) ==
    /\ runs[r].pc = "idle"
    /\ runs' = [runs EXCEPT ![r] = StartRun(tunnel, @)]
    /\ UNCHANGED <<tunnel, outside>>

\* the run after the call of an injectSchema closure that returned got
Called(run, cap, userPrompt, got) ==
    [run EXCEPT !.originalPromptIntent = got.intent,
                !.lastCall = [cap |-> cap, text |-> userPrompt,
                              prompt |-> got.prompt],
                !.supplied0 = IF cap = 0 /\ Trim(userPrompt) # <<>>
                              THEN @ \cup {Trim(userPrompt)} ELSE @,
                !.captured = IF @ = <<>> /\ run.attempt = 0 /\ Trim(userPrompt) # <<>>
                             THEN Trim(userPrompt) ELSE @]

\* the runner in flight calls the injectSchema closure it was handed in
\* iteration cap, this one or an earlier one it kept
CallInjectSchema(r) ==
    /\ runs[r].pc = "awaiting"
    /\ \E cap \in 0..runs[r].attempt, u \in UserTexts :
          runs' = [runs EXCEPT
                      ![r] = Called(@, cap, u, injectSchema(tunnel, @, cap, u))]
    /\ UNCHANGED <<tunnel, outside>>

\* the runner resolves with raw text
RunnerReturns(r) ==
    /\ runs[r].pc = "awaiting"
    /\ \E raw \in RawOutputs :
          runs' = [runs EXCEPT ![r] = AfterRunner(tunnel, @, raw)]
    /\ UNCHANGED <<tunnel, outside>>

\* the runner throws, or the promise it returned rejects
RunnerThrows(r) ==
    /\ runs[r].pc = "awaiting"
    /\ \E err \in RunnerErrors :
          runs' = [runs EXCEPT
                      ![r] = [RunnerThrew(tunnel, @, err) EXCEPT !.thrown = err]]
    /\ UNCHANGED <<tunnel, outside>>

Next ==
    \E r \in RunIds :
        \/ Run(r)
        \/ CallInjectSchema(r)
        \/ RunnerReturns(r)
        \/ RunnerThrows(r)

Spec == Init /\ [][Next]_vars

(***************************************************************************)
(* The claims.  What a claim expects is written from the configuration and *)
(* from what the runner was seen to do, not from the locals of run().      *)
(***************************************************************************)
ConfiguredMaxRetries ==
    IF tunnel.options.hasMaxRetries THEN tunnel.options.maxRetries ELSE 2

ConfiguredMaxChars ==
    IF tunnel.options.hasMaxFailureOutputChars
    THEN tunnel.options.maxFailureOutputChars ELSE 4000

ConfiguredSystemPart ==
    IF Trim(tunnel.options.systemPrompt) # <<>>
    THEN << Trim(tunnel.options.systemPrompt) >> ELSE <<>>

\* the strict output rules around the schema description
ExpectedRules == StrictRules(zodSchemaToTypeScript(TheSchema, <<"Output">>))

FailsValidation(raw) == failureFromRaw(tunnel, raw) # NoFailure

AllFail(raws) == \A i \in 1..Len(raws) : FailsValidation(raws[i])

LastOf(seq) == seq[Len(seq)]

\* C1: with maxRetries = N and a runner whose output fails on every attempt,
\* the runner is invoked exactly N + 1 times, with context.attempt 0..N in
\* order, and run() then fails with TunnelMaxRetriesError, whose failures
\* are the N + 1 records built from the raw outputs in attempt order and
\* whose message states N + 1 attempts.
C1_ExhaustionAfterAllAttempts ==
    \A r \in RunIds :
        LET run == runs[r]
            N == ConfiguredMaxRetries
        IN  /\ Len(run.raws) <= N + 1
            /\ Len(run.invocations) <= N + 1
            /\ (AllFail(run.raws) /\ Len(run.raws) = N + 1)
                  <=> run.error.name = "TunnelMaxRetriesError"
            /\ run.error.name = "TunnelMaxRetriesError" =>
                  /\ run.pc = "rejected"
                  /\ Len(run.invocations) = N + 1
                  /\ \A i \in 1..(N + 1) : run.invocations[i].attempt = i - 1
                  /\ Len(run.error.failures) = N + 1
                  /\ \A i \in 1..(N + 1) :
                        run.error.failures[i] = failureFromRaw(tunnel, run.raws[i])
                  /\ run.error.message =
                        <<"Failed to produce valid output after ", ToString(N + 1),
                          " attempts.">>

C1_Witness ==
    \E r \in RunIds :
        /\ runs[r].error.name = "TunnelMaxRetriesError"
        /\ Len(runs[r].error.failures) = 3
        /\ runs[r].error.failures[1].type # runs[r].error.failures[3].type

\* C2: as soon as the raw output of an attempt k holds a span that decodes
\* and that the schema accepts, run() resolves with the schema-validated
\* value of that span and the runner is not invoked again; attempts 0..k-1
\* are exactly the failed ones and no error is raised.
C2_SuccessEndsTheRun ==
    \A r \in RunIds :
        LET run == runs[r]
        IN  \A i \in 1..Len(run.raws) :
                ~FailsValidation(run.raws[i]) =>
                    LET span == extractJsonText(run.raws[i])
                        decoded == JsonParse(span.text)
                        accepted == SchemaSafeParse(TheSchema, decoded.value)
                    IN  /\ i = Len(run.raws)
                        /\ i <= ConfiguredMaxRetries + 1
                        /\ run.pc = "resolved"
                        /\ span.found /\ ~decoded.threw /\ accepted.success
                        /\ run.result = accepted.data
                        /\ Len(run.invocations) = i
                        /\ Len(run.failures) = i - 1
                        /\ \A j \in 1..(i - 1) :
                              /\ FailsValidation(run.raws[j])
                              /\ run.failures[j] = failureFromRaw(tunnel, run.raws[j])
                        /\ run.error = NoError

C2_ResolvedOnlyBySuccess ==
    \A r \in RunIds :
        runs[r].pc = "resolved" =>
            /\ runs[r].raws # <<>>
            /\ ~FailsValidation(LastOf(runs[r].raws))

C2_Theorem == C2_SuccessEndsTheRun /\ C2_ResolvedOnlyBySuccess

\* resolved on attempt 1, after one failure, with a value that is not the
\* decoded span itself (the schema stripped a key)
C2_Witness ==
    \E r \in RunIds :
        /\ runs[r].pc = "resolved"
        /\ Len(runs[r].raws) = 2
        /\ runs[r].result # JsonParse(extractJsonText(runs[r].raws[2]).text).value

\* C3: the context of attempt 0 has lastFailure = null; the context of an
\* attempt k > 0 has as lastFailure the failure record of the raw output of
\* attempt k - 1, the last of the accumulated failures; context.attempt is
\* the number of failures accumulated so far and context.maxRetries the
\* configured value (default 2).
C3_ContextOfEachAttempt ==
    \A r \in RunIds :
        LET run == runs[r]
        IN  \A i \in 1..Len(run.invocations) :
                LET ctx == run.invocations[i]
                IN  /\ ctx.attempt = i - 1
                    /\ ctx.maxRetries = ConfiguredMaxRetries
                    /\ i = 1 => ctx.lastFailure = NoFailure
                    /\ i > 1 =>
                          /\ ctx.lastFailure = failureFromRaw(tunnel, run.raws[i - 1])
                          /\ ctx.lastFailure = run.failures[i - 1]
                    /\ (i = Len(run.invocations) /\ run.pc = "awaiting") =>
                          /\ ctx.attempt = Len(run.failures)
                          /\ i > 1 => ctx.lastFailure = LastOf(run.failures)

C3_Witness ==
    \E r \in RunIds :
        /\ Len(runs[r].invocations) = 3
        /\ runs[r].invocations[3].lastFailure # runs[r].invocations[2].lastFailure
        /\ tunnel.options.hasMaxRetries = FALSE

\* the "Original request context" part of a corrective prompt for intent x,
\* between the part before it and the "Previous output" part
ContextPart(x) == Blank \o ContextLabel \o x \o Blank \o PreviousLabel

\* C4: on every attempt k > 0 the prompt returned by that attempt's
\* injectSchema embeds, under the original-context label, exactly a trimmed
\* text that was supplied to the injectSchema of attempt 0, and the text
\* passed to the injectSchema of attempt k has no influence on the prompt.
C4_LockedIntent ==
    \A r \in RunIds :
        LET run == runs[r]
            call == run.lastCall
        IN  call.cap > 0 =>
                /\ run.supplied0 # {} =>
                      \E x \in run.supplied0 : Contains(call.prompt, ContextPart(x))
                /\ \A x \in run.supplied0 :
                      Cardinality(run.supplied0) = 1 =>
                          Contains(call.prompt, ContextPart(x))
                /\ \A u \in UserTexts :
                      injectSchema(tunnel, run, call.cap, u).prompt = call.prompt
                /\ \A u \in UserTexts :
                      injectSchema(tunnel, run, call.cap, u).intent
                          = run.originalPromptIntent

\* attempt 1 was handed "b" while "a" had been supplied on attempt 0
C4_Witness ==
    \E r \in RunIds :
        /\ runs[r].lastCall.cap = 1
        /\ Trim(runs[r].lastCall.text) = <<"b">>
        /\ runs[r].supplied0 = {<<"a">>}
        /\ Contains(runs[r].lastCall.prompt, ContextPart(<<"a">>))

\* C5: the raw output of an attempt is classified in exactly one of four
\* ways, by extractAndParseJson and by failureFromRaw alike: no balanced
\* span gives no_json; a span that does not decode gives invalid_json with
\* the span text and the decoder's message; a span that decodes and that the
\* schema rejects gives a schema failure with the span text and the formatted
\* issues; a span that decodes and is accepted gives no failure.  Every
\* failure record carries the raw output unchanged.
Classified(raw, f) ==
    LET span == extractJsonText(raw)
        decoded == JsonParse(span.text)
        checked == SchemaSafeParse(TheSchema, decoded.value)
        e == extractAndParseJson(raw)
    IN  /\ f \in {NoFailure} \/ f.raw = raw
        /\ ~span.found =>
              /\ f.type = "no_json" /\ ~f.hasJsonText
              /\ f.message = NoJsonMessage
              /\ ~e.ok /\ e.reason = "no_json" /\ ~e.hasJsonText
        /\ (span.found /\ decoded.threw) =>
              /\ f.type = "invalid_json"
              /\ f.hasJsonText /\ f.jsonText = span.text
              /\ f.message = decoded.message
              /\ ~e.ok /\ e.reason = "invalid_json"
              /\ e.jsonText = span.text /\ e.message = decoded.message
        /\ (span.found /\ ~decoded.threw) =>
              /\ e.ok /\ e.jsonText = span.text /\ e.value = decoded.value
              /\ ~checked.success =>
                    /\ f.type = "schema"
                    /\ f.hasJsonText /\ f.jsonText = span.text
                    /\ f.issues = formatZodIssues(checked.issues)
              /\ checked.success => f = NoFailure
        /\ f.type \in {"no_json", "invalid_json", "schema", "null"}

C5_Classification ==
    \A r \in RunIds :
        LET run == runs[r]
        IN  /\ \A i \in 1..Len(run.failures) :
                  /\ run.failures[i] # NoFailure
                  /\ Classified(run.raws[i], run.failures[i])
            /\ run.pc = "resolved" => Classified(LastOf(run.raws), NoFailure)
            /\ Len(run.raws) > Len(run.failures) => run.pc = "resolved"

\* one run met the three kinds of failure
C5_Witness ==
    \E r \in RunIds :
        /\ Len(runs[r].failures) = 3
        /\ {runs[r].failures[i].type : i \in 1..3}
              = {"no_json", "invalid_json", "schema"}

\* C6: if the runner throws on attempt k, run() rejects with that same
\* error at once: the runner is not invoked for a later attempt, no failure
\* record is appended for attempt k and the error is not turned into
\* TunnelMaxRetriesError.
C6_RunnerErrorPropagates ==
    \A r \in RunIds :
        LET run == runs[r]
        IN  run.thrown # "" =>
                /\ run.pc = "rejected"
                /\ run.error.name = run.thrown
                /\ run.error.name # "TunnelMaxRetriesError"
                /\ Len(run.invocations) = Len(run.raws) + 1
                /\ Len(run.failures) = Len(run.raws)
                /\ \A i \in 1..Len(run.failures) :
                      run.failures[i] = failureFromRaw(tunnel, run.raws[i])

\* the runner threw on attempt 1, the last attempt but one
C6_Witness ==
    \E r \in RunIds :
        /\ runs[r].thrown # ""
        /\ Len(runs[r].raws) = 1
        /\ ConfiguredMaxRetries = 2

\* C7: if the runner does not throw, run() fails only with
\* TunnelMaxRetriesError after all maxRetries + 1 attempts failed: a
\* no_json, invalid_json or schema failure on an attempt k < maxRetries
\* does not end the run, it becomes the lastFailure of attempt k + 1; no
\* other exception leaves extraction, validation or the success path.
C7_OnlyExhaustionFails ==
    \A r \in RunIds :
        LET run == runs[r]
            N == ConfiguredMaxRetries
        IN  run.thrown = "" =>
                /\ run.pc = "rejected" =>
                      /\ run.error.name = "TunnelMaxRetriesError"
                      /\ Len(run.raws) = N + 1
                      /\ AllFail(run.raws)
                /\ (run.raws # <<>> /\ Len(run.raws) <= N /\ AllFail(run.raws)) =>
                      /\ run.pc = "awaiting"
                      /\ run.error = NoError
                      /\ run.attempt = Len(run.raws)
                      /\ run.lastFailure = failureFromRaw(tunnel, LastOf(run.raws))
                      /\ LastOf(run.invocations).lastFailure = run.lastFailure
                /\ (run.raws # <<>> /\ ~FailsValidation(LastOf(run.raws))) =>
                      run.pc = "resolved"

\* attempt 2 is awaited after an invalid_json failure on attempt 1
C7_Witness ==
    \E r \in RunIds :
        /\ runs[r].thrown = ""
        /\ runs[r].pc = "awaiting"
        /\ runs[r].attempt = 2
        /\ runs[r].lastFailure.type = "invalid_json"
        /\ runs[r].failures[1].type = "no_json"

\* the parts of a prompt are joined by blank lines
PartsOf(parts) == Join(parts, Blank)

\* the user intent part of a base prompt, absent for white space
IntentPart(text) == IF Trim(text) # <<>> THEN << Trim(text) >> ELSE <<>>

\* C8: the injectSchema handed to the runner for attempt 0 returns the base
\* prompt (optional system prompt, strict rules with the rendered schema,
\* user intent) and never the corrective preamble, whenever it is called;
\* the injectSchema handed out for an attempt k > 0 returns a corrective
\* prompt; with maxRetries = 0 the runner is invoked exactly once and no
\* corrective prompt is produced.
C8_PromptOfEachCapability ==
    \A r \in RunIds :
        LET run == runs[r]
            call == run.lastCall
        IN  /\ call.cap = 0 =>
                  /\ call.prompt = PartsOf(ConfiguredSystemPart
                                           \o << ExpectedRules >>
                                           \o IntentPart(call.text))
                  /\ ~Contains(call.prompt, Preamble)
            /\ call.cap > 0 =>
                  /\ Contains(call.prompt, Preamble)
                  /\ call.prompt # PartsOf(ConfiguredSystemPart
                                           \o << ExpectedRules >>
                                           \o IntentPart(call.text))
            /\ ConfiguredMaxRetries = 0 =>
                  /\ Len(run.invocations) <= 1
                  /\ run.pc \in {"resolved", "rejected"} => Len(run.invocations) = 1
                  /\ call.cap <= 0
                  /\ call # NoCall => ~Contains(call.prompt, Preamble)

\* the injectSchema of attempt 0 is called while attempt 1 is in flight
C8_Witness ==
    \E r \in RunIds :
        /\ runs[r].lastCall.cap = 0
        /\ runs[r].attempt = 1
        /\ runs[r].pc = "awaiting"
        /\ runs[r].lastCall.text = <<"b">>

\* C9: every corrective prompt (attempt k > 0) contains the fixed preamble,
\* the strict output rules with the schema description rendered for
\* attempt 0, and the message of the previous failure; it contains the
\* "Schema issues" section, with the formatted issues, if and only if the
\* previous failure is of kind schema.
C9_CorrectivePromptContents ==
    \A r \in RunIds :
        LET run == runs[r]
            call == run.lastCall
        IN  call.cap > 0 =>
                /\ Contains(call.prompt, Preamble \o Blank)
                /\ Contains(call.prompt, Blank \o ExpectedRules \o Blank)
                /\ ExpectedRules = tunnel.STRICT_RULES
                /\ Contains(call.prompt,
                            Blank \o ProblemsLabel
                                  \o LastOf(run.failures).message \o Blank)
                /\ LastOf(run.failures)
                      = failureFromRaw(tunnel, LastOf(run.raws))
                /\ Contains(call.prompt, IssuesLabel)
                      <=> LastOf(run.failures).type = "schema"
                /\ LastOf(run.failures).type = "schema" =>
                      Contains(call.prompt,
                               Blank \o IssuesLabel
                                     \o LastOf(run.failures).issues \o Blank)

\* a corrective prompt after a schema failure, and its issues section
C9_Witness ==
    \E r \in RunIds :
        /\ runs[r].lastCall.cap > 0
        /\ LastOf(runs[r].failures).type = "schema"
        /\ LastOf(runs[r].failures).issues # <<>>
        /\ Contains(runs[r].lastCall.prompt, IssuesLabel)

\* the text of a corrective prompt from its "Previous output" label on
Echo(prompt) == Slice(prompt, IndexOf(prompt, Head(PreviousLabel)), Len(prompt))

\* C10: when the raw output of the previous attempt is longer than
\* maxFailureOutputChars (default 4000), the corrective prompt echoes its
\* first maxFailureOutputChars characters followed by the truncation
\* marker, and the echo does not contain the whole output; when it is not
\* longer, it is echoed in full and the prompt has no truncation marker.
C10_Truncation ==
    \A r \in RunIds :
        LET run == runs[r]
            call == run.lastCall
            raw == LastOf(run.raws)
            max == ConfiguredMaxChars
        IN  call.cap > 0 =>
                /\ Contains(call.prompt, Blank \o PreviousLabel)
                /\ Len(raw) > max =>
                      /\ Echo(call.prompt)
                            = PreviousLabel \o SubSeq(raw, 1, max)
                                            \o TruncationMarker \o PreviousEnd
                      /\ Contains(call.prompt, TruncationMarker)
                      /\ ~Contains(Echo(call.prompt), raw)
                /\ Len(raw) <= max =>
                      /\ Echo(call.prompt) = PreviousLabel \o raw \o PreviousEnd
                      /\ ~Contains(call.prompt, TruncationMarker)

\* a corrective prompt echoing two characters of a longer output
C10_Witness ==
    \E r \in RunIds :
        /\ runs[r].lastCall.cap > 0
        /\ ConfiguredMaxChars = SmallMaxChars
        /\ Len(LastOf(runs[r].raws)) > SmallMaxChars + 1
        /\ Contains(runs[r].lastCall.prompt, TruncationMarker)

\* a corrective prompt echoing in full an output of the permitted length
C10_WitnessWhole ==
    \E r \in RunIds :
        /\ runs[r].lastCall.cap > 0
        /\ Len(LastOf(runs[r].raws)) = ConfiguredMaxChars

\* C11: an empty or white-space user prompt is accepted: the base prompt of
\* attempt 0 is then the optional system prompt and the strict rules, with no
\* intent part; and while no non-empty text has been given to the
\* injectSchema of attempt 0, every corrective prompt omits the "Original
\* request context" section, whatever text the later injectSchema is given.
C11_EmptyIntent ==
    \A r \in RunIds :
        LET run == runs[r]
            call == run.lastCall
        IN  /\ (call.cap = 0 /\ Trim(call.text) = <<>>) =>
                  call.prompt = PartsOf(ConfiguredSystemPart \o << ExpectedRules >>)
            /\ (call.cap > 0 /\ run.supplied0 = {}) =>
                  /\ ~Contains(call.prompt, ContextLabel)
                  /\ ~Contains(call.prompt, <<"b">> \o Blank \o PreviousLabel)
                  /\ run.originalPromptIntent = <<>>

\* a corrective prompt asked for with text "b" after no intent was locked
C11_Witness ==
    \E r \in RunIds :
        /\ runs[r].lastCall.cap > 0
        /\ runs[r].lastCall.text = <<"b">>
        /\ runs[r].supplied0 = {}

\* a base prompt asked for with a white-space text
C11_WitnessBase ==
    \E r \in RunIds :
        /\ runs[r].lastCall.cap = 0
        /\ runs[r].lastCall.prompt = PartsOf(ConfiguredSystemPart \o << ExpectedRules >>)

(***************************************************************************)
(* Two run() calls in flight on one tunnel.  The locals of a call of run() *)
(* (failures, lastFailure, originalPromptIntent, attempt) live in the      *)
(* activation of that call; the tunnel is all the calls share.  runs[f] is *)
(* the activation frame f, and alone[r] is call r executed on its own,     *)
(* with the same runner behaviour.                                         *)
(***************************************************************************)
ConcurrentRunIds == {1, 2}

\* the tunnel the two calls share: one retry, a system prompt, short echoes
ConcurrentOptions ==
    {o \in Options : o.hasMaxRetries /\ o.maxRetries = 1 /\ o.hasMaxFailureOutputChars}

ConcurrentTexts == {<<"a">>, <<"b">>}

ConcurrentRaws ==
    { <<"a">>, <<"[", "1", "]">>, <<"{", "\"", "a", "\"", ":", "1", "}">> }

\* variant: one frame for every call of run(), as if its locals were
\* declared in createTunnel
FrameOfTunnel(r) == 1

\* the activation frame of call r: its own
Frame(r) == r

InitConcurrent ==
    /\ tunnel \in {createTunnel(TheSchema, o) : o \in ConcurrentOptions}
    /\ runs = [r \in ConcurrentRunIds |-> IdleRun]
    /\ alone = [r \in ConcurrentRunIds |-> IdleRun]
    /\ NoPure /\ NoStream

\* tunnel.run(runner) is called a first or a second time
RunConcurrently(r) ==
    /\ alone[r].pc = "idle"
    /\ runs' = [runs EXCEPT ![Frame(r)] = StartRun(tunnel, @)]
    /\ alone' = [alone EXCEPT ![r] = StartRun(tunnel, @)]
    /\ UNCHANGED <<tunnel, pure, validator>>

\* the runner of call r calls an injectSchema it was handed
CallInjectSchemaConcurrently(r) ==
    /\ alone[r].pc = "awaiting"
    /\ \E cap \in 0..alone[r].attempt, u \in ConcurrentTexts :
          /\ runs' = [runs EXCEPT
                         ![Frame(r)] = Called(@, cap, u, injectSchema(tunnel, @, cap, u))]
          /\ alone' = [alone EXCEPT
                          ![r] = Called(@, cap, u, injectSchema(tunnel, @, cap, u))]
    /\ UNCHANGED <<tunnel, pure, validator>>

\* the runner of call r resolves
RunnerReturnsConcurrently(r) ==
    /\ alone[r].pc = "awaiting"
    /\ \E raw \in ConcurrentRaws :
          /\ runs' = [runs EXCEPT ![Frame(r)] = AfterRunner(tunnel, @, raw)]
          /\ alone' = [alone EXCEPT ![r] = AfterRunner(tunnel, @, raw)]
    /\ UNCHANGED <<tunnel, pure, validator>>

\* the runner of call r throws
RunnerThrowsConcurrently(r) ==
    /\ alone[r].pc = "awaiting"
    /\ \E err \in RunnerErrors :
          /\ runs' = [runs EXCEPT
                         ![Frame(r)] = [RunnerThrew(tunnel, @, err) EXCEPT !.thrown = err]]
          /\ alone' = [alone EXCEPT
                          ![r] = [RunnerThrew(tunnel, @, err) EXCEPT !.thrown = err]]
    /\ UNCHANGED <<tunnel, pure, validator>>

NextConcurrent ==
    \E r \in ConcurrentRunIds :
        \/ RunConcurrently(r)
        \/ CallInjectSchemaConcurrently(r)
        \/ RunnerReturnsConcurrently(r)
        \/ RunnerThrowsConcurrently(r)

SpecConcurrent == InitConcurrent /\ [][NextConcurrent]_vars

\* C12: two run() calls on one tunnel, interleaved in any way at the awaits
\* of their runners, do not interfere: the failure list, lastFailure, attempt
\* counter and locked intent of each call, hence its prompts, its value or
\* its TunnelMaxRetriesError, are those of the same call executed alone, and
\* the tunnel they share is never written.
C12_RunsDoNotInterfere ==
    /\ \A r \in ConcurrentRunIds : runs[Frame(r)] = alone[r]
    /\ \A r \in ConcurrentRunIds : runs[r] = alone[r]
    /\ tunnel = createTunnel(TheSchema, tunnel.options)

\* both calls are in flight at attempt 1, with different failures and
\* different locked intents
C12_Witness ==
    /\ runs[1].pc = "awaiting" /\ runs[2].pc = "awaiting"
    /\ runs[1].attempt = 1 /\ runs[2].attempt = 1
    /\ runs[1].lastFailure # runs[2].lastFailure
    /\ runs[1].originalPromptIntent = <<"a">>
    /\ runs[2].originalPromptIntent = <<"b">>
    /\ runs[1].lastCall.cap = 1 /\ runs[2].lastCall.cap = 1

(***************************************************************************)
(* extractJsonText and extractAndParseJson on every short text.  Beside the *)
(* span or result returned, trace keeps the values that inString, escaped  *)
(* and depth took after each iteration of the scan.                        *)
(***************************************************************************)
\* longest text handed to the extractor
MaxTextLen == 5

\* the characters the scan tells apart, and one it does not
ScanAlphabet == {"{", "}", "[", "]", "\"", "\\", "a"}

RECURSIVE TextsOf(_, _)
TextsOf(chars, n) ==
    IF n = 0 THEN {<<>>}
    ELSE TextsOf(chars, n - 1)
         \cup {Append(t, c) : t \in {u \in TextsOf(chars, n - 1) : Len(u) = n - 1},
                              c \in chars}

ScanTexts == TextsOf(ScanAlphabet, MaxTextLen)

NotExtracted ==
    [ok |-> FALSE, reason |-> "", message |-> <<>>, hasJsonText |-> FALSE,
     jsonText |-> <<>>, value |-> Undefined]

InitExtract ==
    /\ extraction \in {[text |-> t, fn |-> "", span |-> NoSpan, trace |-> <<>>,
                        result |-> NotExtracted] : t \in ScanTexts}
    /\ formatting = <<>>
    /\ NoTunnel /\ NoStream

\* extractJsonText(text) is called
ExtractJsonText ==
    /\ extraction.fn = ""
    /\ extraction' = [extraction EXCEPT
                         !.fn = "extractJsonText",
                         !.span = extractJsonText(extraction.text),
                         !.trace = TraceFrom(extraction.text,
                                             findJsonStartIndex(extraction.text))]
    /\ UNCHANGED <<tunnel, runs, alone, formatting, validator>>

\* extractAndParseJson(text) is called
ExtractAndParseJson ==
    /\ extraction.fn = ""
    /\ extraction' = [extraction EXCEPT !.fn = "extractAndParseJson",
                                        !.result = extractAndParseJson(extraction.text)]
    /\ UNCHANGED <<tunnel, runs, alone, formatting, validator>>

NextExtract == ExtractJsonText \/ ExtractAndParseJson

SpecExtract == InitExtract /\ [][NextExtract]_vars

Openers == {"{", "["}

Closers == {"}", "]"}

\* how the text reads after character j when string literals are read from
\* start: "out" of a literal, "in" one, or "esc" just after a backslash in one
RECURSIVE ModeAfter(_, _, _)
ModeAfter(text, start, j) ==
    IF j < start THEN "out"
    ELSE LET before == ModeAfter(text, start, j - 1)
             ch == CharAt(text, j)
         IN  CASE before = "esc" -> "in"
               [] before = "in" /\ ch = "\\" -> "esc"
               [] before = "in" /\ ch = "\"" -> "out"
               [] before = "in" -> "in"
               [] before = "out" /\ ch = "\"" -> "in"
               [] OTHER -> "out"

\* character j stands outside every string literal
OutsideLiterals(text, start, j) ==
    ModeAfter(text, start, j - 1) = "out" /\ CharAt(text, j) # "\""

\* openers minus closers outside string literals, from start to j
NestingAt(text, start, j) ==
    Cardinality({k \in start..j : OutsideLiterals(text, start, k)
                                    /\ CharAt(text, k) \in Openers})
    - Cardinality({k \in start..j : OutsideLiterals(text, start, k)
                                      /\ CharAt(text, k) \in Closers})

Least(S) == CHOOSE x \in S : \A y \in S : x <= y

OpenerPositions(text) == {i \in 0..(Len(text) - 1) : CharAt(text, i) \in Openers}

\* the later positions at which the nesting opened at start is back to zero
BalancePositions(text, start) ==
    {j \in (start + 1)..(Len(text) - 1) : NestingAt(text, start, j) = 0}

\* the span from the earliest opener to the first balance position, if both
\* exist
BalancedSpan(text) ==
    IF OpenerPositions(text) = {} THEN NoSpan
    ELSE IF BalancePositions(text, Least(OpenerPositions(text))) = {} THEN NoSpan
    ELSE [found |-> TRUE,
          text |-> SubSeq(text, Least(OpenerPositions(text)) + 1,
                          Least(BalancePositions(text, Least(OpenerPositions(text)))) + 1)]

\* C13: for every text, extractJsonText returns the span that begins at the
\* earliest "{" or "[" and ends at the first later position where openers
\* minus closers, counted outside string literals only, are back to zero;
\* brackets inside a string literal (between unescaped double quotes, a
\* backslash escaping the next character) do not end the span; it returns
\* no span when the nesting never returns to zero or the text has no opener.
C13_BalancedSpan ==
    extraction.fn = "extractJsonText" =>
        /\ extraction.span = BalancedSpan(extraction.text)
        /\ extraction.span.found =>
              /\ Head(extraction.span.text) \in Openers
              /\ NestingAt(extraction.span.text, 0, Len(extraction.span.text) - 1) = 0
              /\ \A j \in 0..(Len(extraction.span.text) - 2) :
                    NestingAt(extraction.span.text, 0, j) > 0

\* a closing brace inside a string literal, after an escaped quote, does not
\* end the span
C13_Witness ==
    /\ extraction.fn = "extractJsonText"
    /\ extraction.text = <<"{", "\"", "\\", "\"", "}">>
    /\ ~extraction.span.found

\* a brace inside a string literal is passed over and the span returned
C13_WitnessQuoted ==
    /\ extraction.fn = "extractJsonText"
    /\ extraction.text = <<"{", "\"", "}", "\"", "}">>
    /\ extraction.span = [found |-> TRUE, text |-> extraction.text]

\* the closer that matches an opener
CloserOf(ch) == IF ch = "{" THEN "}" ELSE "]"

\* the characters i .. j of text are a balanced object or array: an opener,
\* its nesting back to zero at j and not before, and the matching closer
IsBalancedAt(text, i, j) ==
    /\ CharAt(text, i) \in Openers
    /\ CharAt(text, j) = CloserOf(CharAt(text, i))
    /\ BalancePositions(text, i) # {}
    /\ Least(BalancePositions(text, i)) = j

\* where the balanced objects and arrays of the text begin
BalancedStarts(text) ==
    {i \in 0..(Len(text) - 1) :
        \E j \in (i + 1)..(Len(text) - 1) : IsBalancedAt(text, i, j)}

\* the first balanced object or array of a text that has one
FirstBalanced(text) ==
    SubSeq(text, Least(BalancedStarts(text)) + 1,
           Least(BalancePositions(text, Least(BalancedStarts(text)))) + 1)

\* C14: whenever the text contains a substring that is a balanced object or
\* array, extractJsonText returns the first such substring and
\* extractAndParseJson attempts to parse it, and neither reports that no
\* JSON was found.
C14_FirstBalancedSubstring ==
    BalancedStarts(extraction.text) # {} =>
        /\ extraction.fn = "extractJsonText" =>
              extraction.span = [found |-> TRUE,
                                 text |-> FirstBalanced(extraction.text)]
        /\ extraction.fn = "extractAndParseJson" =>
              /\ extraction.result.reason # "no_json"
              /\ extraction.result.jsonText = FirstBalanced(extraction.text)

\* the balanced array after an unclosed brace is not found
C14_Missed ==
    /\ extraction.text = <<"{", "[", "]">>
    /\ FirstBalanced(extraction.text) = <<"[", "]">>
    /\ extraction.fn = "extractAndParseJson"
    /\ extraction.result.reason = "no_json"

(***************************************************************************)
(* stream.ts: createJsonStreamValidator.  The validator is its schema and  *)
(* its buffer buf.  Beside them the model keeps the stream being read      *)
(* (source, pos), the last operation with its chunk and the buffer before  *)
(* it, the result of the last push, what buffer() last returned, the       *)
(* chunks pushed since creation or reset laid end to end (pushed), and a   *)
(* second validator created at the last reset and pushed the same chunks   *)
(* (twin).                                                                 *)
(***************************************************************************)
\* longest chunk pushed at once
MaxChunkLen == 3

\* the documents a stream is made of
StreamDocs ==
    { <<"a", "{", "\"", "a", "\"", ":", "1", "}", "a">>,
      <<"{", "\"", "a", "\"", ":", "\"", "}", "\"", "}">>,
      <<"[", "1", "]">>,
      <<"{", "\"", "a", "\"", ":", "1", ",", "}">>,
      <<"{", "[", "1", "]">>,
      <<"a", "a">> }

\* a stream: one document, or two laid end to end
StreamSources == StreamDocs \cup {d \o e : d \in StreamDocs, e \in StreamDocs}

NoResult ==
    [status |-> "", buffer |-> <<>>, message |-> <<>>, hasJsonText |-> FALSE,
     jsonText |-> <<>>, issues |-> <<>>, hasData |-> FALSE, data |-> Undefined]

\* variant: a push whose invalid_schema result carries the issues of the
\* first field only and no span text
StreamCheckedOfFirstIssue(buf, extracted, validated) ==
    IF ~validated.success
    THEN [NoResult EXCEPT !.status = "invalid_schema", !.buffer = buf,
                          !.message = SchemaMessage,
                          !.issues = FormatIssueLine(validated.issues[1]) \o <<"\n">>]
    ELSE [NoResult EXCEPT !.status = "valid", !.buffer = buf,
                          !.hasData = TRUE, !.data = validated.data,
                          !.hasJsonText = TRUE, !.jsonText = extracted.jsonText]

\* lines 56 to 72 of push, on the result of safeParse
StreamChecked(buf, extracted, validated) ==
    IF ~validated.success
    THEN [NoResult EXCEPT !.status = "invalid_schema", !.buffer = buf,
                          !.message = SchemaMessage,
                          !.issues = formatZodIssues(validated.issues),
                          !.hasJsonText = TRUE, !.jsonText = extracted.jsonText]
    ELSE [NoResult EXCEPT !.status = "valid", !.buffer = buf,
                          !.hasData = TRUE, !.data = validated.data,
                          !.hasJsonText = TRUE, !.jsonText = extracted.jsonText]

\* variant: a push that reports an unfinished span as invalid_json
StreamResultOfImpatience(schema, buf, extracted) ==
    IF ~extracted.ok
    THEN [NoResult EXCEPT !.status = IF extracted.reason = "no_json" /\ OpenerPositions(buf) = {}
                                     THEN "no_json_yet" ELSE "invalid_json",
                          !.buffer = buf, !.message = extracted.message,
                          !.hasJsonText = extracted.hasJsonText,
                          !.jsonText = extracted.jsonText]
    ELSE StreamChecked(buf, extracted, SchemaSafeParse(schema, extracted.value))

\* lines 42 to 72 of push, on the result of extractAndParseJson
StreamResult(schema, buf, extracted) ==
    IF ~extracted.ok
    THEN IF extracted.reason = "no_json"
         THEN [NoResult EXCEPT !.status = "no_json_yet", !.buffer = buf]
         ELSE [NoResult EXCEPT !.status = "invalid_json", !.buffer = buf,
                               !.message = extracted.message,
                               !.hasJsonText = extracted.hasJsonText,
                               !.jsonText = extracted.jsonText]
    ELSE StreamChecked(buf, extracted, SchemaSafeParse(schema, extracted.value))

\* variant: a push that reads the buffer from its last opener
PushedOfLatestSpan(schema, buf) ==
    IF OpenerPositions(buf) = {}
    THEN [buf |-> buf, result |-> StreamResult(schema, buf, extractAndParseJson(buf))]
    ELSE [buf |-> buf,
          result |-> StreamResult(schema, buf,
                        extractAndParseJson(
                            SubSeq(buf,
                                   (CHOOSE i \in OpenerPositions(buf) :
                                       \A j \in OpenerPositions(buf) : j <= i) + 1,
                                   Len(buf))))]

\* push after buf += chunk: the buffer and the result returned
Pushed(schema, buf) ==
    [buf |-> buf, result |-> StreamResult(schema, buf, extractAndParseJson(buf))]

\* variant: a push that drops the buffer once a result other than
\* no_json_yet was returned
pushOfNewSpan(schema, buf, chunk) ==
    IF extractJsonText(buf).found THEN Pushed(schema, chunk)
    ELSE Pushed(schema, buf \o chunk)

\* variant: a push that looks at its chunk only
pushOfChunkOnly(schema, buf, chunk) ==
    [buf |-> buf \o chunk,
     result |-> StreamResult(schema, buf \o chunk, extractAndParseJson(chunk))]

push(schema, buf, chunk) == Pushed(schema, buf \o chunk)

\* variant: a reset that keeps what was buffered after a closed span
resetToRemainder(buf) ==
    IF extractJsonText(buf).found THEN <<>> ELSE buf

\* reset(): buf = ""
reset(buf) == <<>>

\* buffer(): buf
buffer(buf) == buf

createJsonStreamValidator(schema) == [schema |-> schema, buf |-> <<>>]

\* the validator just created, about to read the stream source
NewValidator(schema, source) ==
    [schema |-> schema, buf |-> <<>>,
     source |-> source, pos |-> 0,
     op |-> "create", chunk |-> <<>>, before |-> <<>>,
     last |-> NoResult, read |-> <<>>, pushed |-> <<>>,
     twin |-> [buf |-> <<>>, last |-> NoResult]]

InitStream ==
    /\ validator \in {NewValidator(createJsonStreamValidator(TheSchema).schema, s) :
                         s \in StreamSources}
    /\ NoTunnel /\ NoPure

\* the validator after push(chunk) returned got, its twin having returned
\* twinGot for the same chunk
AfterPush(v, chunk, got, twinGot) ==
    [v EXCEPT !.buf = got.buf, !.last = got.result,
              !.pos = @ + Len(chunk),
              !.op = "push", !.chunk = chunk, !.before = v.buf,
              !.read = <<>>, !.pushed = @ \o chunk,
              !.twin = [buf |-> twinGot.buf, last |-> twinGot.result]]

\* validator.push(chunk), the chunk being the next n characters of the stream
Push ==
    /\ \E n \in 0..MaxChunkLen :
          /\ validator.pos + n <= Len(validator.source)
          /\ validator' =
                AfterPush(validator,
                          SubSeq(validator.source, validator.pos + 1, validator.pos + n),
                          push(validator.schema, validator.buf,
                               SubSeq(validator.source, validator.pos + 1,
                                      validator.pos + n)),
                          push(validator.schema, validator.twin.buf,
                               SubSeq(validator.source, validator.pos + 1,
                                      validator.pos + n)))
    /\ UNCHANGED <<tunnel, runs, alone, pure>>

\* validator.reset()
Reset ==
    /\ validator.op # "reset"
    /\ validator' = [validator EXCEPT
                        !.buf = reset(@),
                        !.op = "reset", !.chunk = <<>>, !.before = validator.buf,
                        !.last = NoResult, !.read = <<>>, !.pushed = <<>>,
                        !.twin = [buf |-> createJsonStreamValidator(validator.schema).buf,
                                  last |-> NoResult]]
    /\ UNCHANGED <<tunnel, runs, alone, pure>>

\* validator.buffer()
Buffer ==
    /\ validator.op # "buffer"
    /\ validator' = [validator EXCEPT
                        !.read = buffer(validator.buf),
                        !.op = "buffer", !.chunk = <<>>, !.before = validator.buf]
    /\ UNCHANGED <<tunnel, runs, alone, pure>>

NextStream == Push \/ Reset \/ Buffer

SpecStream == InitStream /\ [][NextStream]_vars

\* what a validator just created returns for text pushed as one chunk
FreshResult(schema, text) ==
    push(schema, createJsonStreamValidator(schema).buf, text).result

\* C15: whatever chunks were pushed since the validator was created or last
\* reset, the result of the latest push (status, buffer, jsonText, data,
\* issues, message) is the result a fresh validator returns when the chunks
\* laid end to end are pushed as a single chunk.
C15_ChunkBoundaryIndependence ==
    validator.last # NoResult =>
        validator.last = FreshResult(validator.schema, validator.pushed)

\* a valid result reached in several chunks, the last not holding the span
C15_Witness ==
    /\ validator.op = "push"
    /\ validator.last.status = "valid"
    /\ Len(validator.chunk) = 1
    /\ Len(validator.before) > Len(validator.chunk)
    /\ validator.pushed = validator.before \o validator.chunk
    /\ validator.pushed # validator.source

\* documents delivered whole: an object the schema accepts, an object it
\* rejects with a brace inside a string, an array
Documents ==
    { <<"{", "\"", "a", "\"", ":", "1", "}">>,
      <<"{", "\"", "a", "\"", ":", "\"", "}", "\"", "}">>,
      <<"[", "1", "]">> }

IsPrefix(p, text) == Len(p) <= Len(text) /\ SubSeq(text, 1, Len(p)) = p

\* a well-formed object or array document
WellFormed(d) == Head(d) \in Openers /\ ~JsonParse(d).threw

\* C16: when a well-formed JSON object or array document is delivered in
\* chunks cut anywhere, every push before the one that delivers the closing
\* bracket returns no_json_yet, never invalid_json, and the push that
\* delivers the closing bracket returns valid if the schema accepts the
\* decoded value and invalid_schema otherwise.
C16_DocumentInChunks ==
    \A d \in Documents :
        /\ WellFormed(d)
        /\ (validator.last # NoResult /\ IsPrefix(validator.pushed, d)) =>
              /\ Len(validator.pushed) < Len(d) =>
                    validator.last.status = "no_json_yet"
              /\ validator.pushed = d =>
                    /\ validator.last.status
                          = IF SchemaSafeParse(validator.schema, JsonParse(d).value).success
                            THEN "valid" ELSE "invalid_schema"
                    /\ validator.last.jsonText = d

\* the document is cut after a closing brace that stands inside a string
C16_Witness ==
    /\ validator.op = "push"
    /\ validator.pushed = <<"{", "\"", "a", "\"", ":", "\"", "}">>
    /\ validator.chunk = <<"}">>
    /\ validator.last.status = "no_json_yet"

\* the closing brace arrives on its own and the document is valid
C16_WitnessValid ==
    /\ validator.op = "push"
    /\ validator.pushed = <<"{", "\"", "a", "\"", ":", "1", "}">>
    /\ validator.chunk = <<"}">>
    /\ validator.last.status = "valid"

\* the closing brace arrives and the schema rejects the document
C16_WitnessRejected ==
    /\ validator.op = "push"
    /\ validator.pushed = <<"{", "\"", "a", "\"", ":", "\"", "}", "\"", "}">>
    /\ validator.last.status = "invalid_schema"

\* C17: after any pushes and resets, buffer() is the chunks pushed since
\* creation or the last reset laid end to end in order; a push changes the
\* buffer only by appending its chunk, the buffer field of its result is
\* that accumulated buffer, and the buffer never shrinks but through reset.
C17_BufferIsWhatWasPushed ==
    /\ buffer(validator.buf) = validator.pushed
    /\ validator.op = "buffer" =>
          /\ validator.read = validator.pushed
          /\ validator.buf = validator.before
    /\ validator.op = "push" =>
          /\ validator.buf = validator.before \o validator.chunk
          /\ validator.last.buffer = validator.pushed
    /\ validator.last # NoResult => validator.last.buffer = validator.pushed
    /\ validator.op # "reset" => Len(validator.buf) >= Len(validator.before)
    /\ validator.pushed
          = SubSeq(validator.source, validator.pos - Len(validator.pushed) + 1,
                   validator.pos)

\* buffer() is read after a reset and two later pushes, the first of which
\* closed a span
C17_Witness ==
    /\ validator.op = "buffer"
    /\ validator.last.status = "invalid_schema"
    /\ Len(validator.read) > Len(validator.last.jsonText)
    /\ Len(validator.read) < validator.pos

\* C18: reset() empties the buffer whatever status was last reported, and
\* from then on every sequence of pushes gets exactly the results that a
\* newly created validator with the same schema gets for that sequence:
\* nothing from before the reset influences a later result.
C18_ResetStartsAfresh ==
    /\ validator.op = "reset" =>
          /\ validator.buf = <<>>
          /\ [schema |-> validator.schema, buf |-> validator.buf]
                = createJsonStreamValidator(validator.schema)
    /\ validator.buf = validator.twin.buf
    /\ validator.last = validator.twin.last
    /\ validator.op = "push" =>
          validator.last.buffer = validator.twin.buf

\* a stream found valid after a reset that followed an invalid_json stream
C18_Witness ==
    /\ validator.source
          = <<"{", "\"", "a", "\"", ":", "1", ",", "}">>
            \o <<"a", "{", "\"", "a", "\"", ":", "1", "}", "a">>
    /\ validator.op = "push"
    /\ validator.pos = 16
    /\ validator.pushed = <<"a", "{", "\"", "a", "\"", ":", "1", "}">>
    /\ validator.last.status = "valid"

\* a reset with a closed span in the buffer
C18_WitnessReset ==
    /\ validator.op = "reset"
    /\ extractJsonText(validator.before).found
    /\ validator.buf = <<>>

(***************************************************************************)
(* formatZodIssues on every short list of issues                           *)
(***************************************************************************)
\* most issues in one error
MaxIssues == 2

\* longest issue path
MaxPathLen == 2

Accessors == {Key(<<"a", "b">>), Index(12)}

RECURSIVE SeqsOf(_, _)
SeqsOf(S, n) ==
    IF n = 0 THEN {<<>>}
    ELSE SeqsOf(S, n - 1)
         \cup {Append(q, x) : q \in {u \in SeqsOf(S, n - 1) : Len(u) = n - 1}, x \in S}

IssueMessages == { <<"Required">>, <<"Expected ", "number", ", received ", "string">> }

Issues == [path : SeqsOf(Accessors, MaxPathLen), message : IssueMessages]

InitFormat ==
    /\ formatting \in {[issues |-> is, called |-> FALSE, text |-> <<>>] :
                          is \in SeqsOf(Issues, MaxIssues)}
    /\ extraction = <<>>
    /\ NoTunnel /\ NoStream

\* formatZodIssues(error) is called
FormatZodIssues ==
    /\ ~formatting.called
    /\ formatting' = [formatting EXCEPT !.called = TRUE,
                                        !.text = formatZodIssues(formatting.issues)]
    /\ UNCHANGED <<tunnel, runs, alone, extraction, validator>>

NextFormat == FormatZodIssues

SpecFormat == InitFormat /\ [][NextFormat]_vars

\* the lines of a text: its pieces between line feeds
RECURSIVE LinesFrom(_, _)
LinesFrom(text, line) ==
    IF text = <<>> THEN << line >>
    ELSE IF Head(text) = "\n" THEN << line >> \o LinesFrom(Tail(text), <<>>)
    ELSE LinesFrom(Tail(text), Append(line, Head(text)))

Lines(text) == IF text = <<>> THEN <<>> ELSE LinesFrom(text, <<>>)

\* the accessors of a path, each after a dot but the first
RECURSIVE Dotted(_)
Dotted(path) ==
    IF Len(path) = 1 THEN AccessorToString(path[1])
    ELSE Dotted(SubSeq(path, 1, Len(path) - 1))
         \o <<".">> \o AccessorToString(path[Len(path)])

\* C19: formatZodIssues renders exactly one line per issue, in the order of
\* the issues, each line being "- <path>: <message>" where the path is the
\* field and array-index accessors joined by dots, or "<root>" exactly when
\* the path of the issue is empty.
C19_OneLinePerIssue ==
    formatting.called =>
        /\ Len(Lines(formatting.text)) = Len(formatting.issues)
        /\ \A i \in 1..Len(formatting.issues) :
              /\ formatting.issues[i].path = <<>> =>
                    Lines(formatting.text)[i]
                       = <<"- ", "<root>", ": ">> \o formatting.issues[i].message
              /\ formatting.issues[i].path # <<>> =>
                    /\ Lines(formatting.text)[i]
                          = <<"- ">> \o Dotted(formatting.issues[i].path)
                                     \o <<": ">> \o formatting.issues[i].message
                    /\ ~Contains(Lines(formatting.text)[i], <<"<root>">>)

\* two issues, one at the root and one at an element of a field
C19_Witness ==
    /\ formatting.called
    /\ Len(formatting.issues) = 2
    /\ formatting.issues[1].path = <<>>
    /\ formatting.issues[2].path = <<Key(<<"a", "b">>), Index(12)>>
    /\ formatting.issues[2].message = <<"Required">>
    /\ formatting.text = <<"- ", "<root>", ": ", "Expected ", "number", ", received ",
                           "string", "\n", "- ", "a", "b", ".", "1", "2", ": ",
                           "Required">>

\* C20: the locked intent of a run is captured once: after the first
\* injectSchema call of attempt 0 with a non-empty trimmed text, every
\* corrective prompt of the run embeds that text, whatever later calls are
\* made: a second call during attempt 0 with another text, a call during a
\* later attempt, or a call of the attempt-0 injectSchema kept by the runner
\* and made during a later attempt.
C20_IntentCapturedOnce ==
    \A r \in RunIds :
        LET run == runs[r]
        IN  run.captured # <<>> =>
                /\ run.originalPromptIntent = run.captured
                /\ run.lastCall.cap > 0 =>
                      Contains(run.lastCall.prompt, ContextPart(run.captured))

\* attempt 0 was given "a" and then "b", and the prompt of attempt 1 holds "b"
C20_SecondCallWins ==
    \E r \in RunIds :
        /\ runs[r].captured = <<"a">>
        /\ runs[r].supplied0 = {<<"a">>, <<"b">>}
        /\ Len(runs[r].invocations) = 2
        /\ runs[r].lastCall.cap = 1
        /\ Contains(runs[r].lastCall.prompt, ContextPart(<<"b">>))
        /\ ~Contains(runs[r].lastCall.prompt, ContextPart(<<"a">>))

\* the context the runner of the attempt in flight was invoked with
ContextInFlight(run) == LastOf(run.invocations)

InFlight(run) ==
    Len(run.invocations) - Len(run.raws) - (IF run.thrown # "" THEN 1 ELSE 0)

\* C22: the attempts of a run execute strictly one after the other: the
\* runner of attempt k + 1 is invoked only after the runner of attempt k has
\* resolved, its raw output has been classified as a failure and that
\* failure has been appended to the failure list and set as lastFailure; at
\* most one runner invocation of a run is in flight at any time.
C22_AttemptsAreSequential ==
    \A r \in RunIds :
        LET run == runs[r]
        IN  /\ InFlight(run) \in {0, 1}
            /\ InFlight(run) = 1 <=> run.pc = "awaiting"
            /\ \A k \in 1..(Len(run.invocations) - 1) :
                  /\ run.invocations[k + 1].attempt = run.invocations[k].attempt + 1
                  /\ k <= Len(run.raws)
                  /\ k <= Len(run.failures)
                  /\ run.failures[k] = failureFromRaw(tunnel, run.raws[k])
                  /\ run.failures[k] # NoFailure
                  /\ run.invocations[k + 1].lastFailure = run.failures[k]
            /\ run.pc = "awaiting" =>
                  /\ Len(run.failures) = Len(run.invocations) - 1
                  /\ run.lastFailure = ContextInFlight(run).lastFailure

\* the third runner invocation is in flight, the first two have resolved
C22_Witness ==
    \E r \in RunIds :
        /\ Len(runs[r].invocations) = 3
        /\ Len(runs[r].raws) = 2
        /\ InFlight(runs[r]) = 1
        /\ runs[r].lastCall.cap = 2

\* the value validated by the first pass, inside failureFromRaw
FirstPass(t, extracted) ==
    [threw |-> FALSE, data |-> SchemaSafeParse(t.schema, extracted.value).data]

\* a loop body that returns the value of the first pass
SettleReusing(t, run, raw, failure) ==
    IF failure = NoFailure THEN Succeed(run, FirstPass(t, extractAndParseJson(raw)))
    ELSE NextIteration(t, Failed(run, failure))

AfterRunnerReusing(t, run, raw) ==
    SettleReusing(t, [run EXCEPT !.raws = Append(@, raw), !.lastCall = NoCall],
                  raw, failureFromRaw(t, raw))

SpanReported(result) == result.status \in {"valid", "invalid_schema", "invalid_json"}

\* C24: once a push has returned a status other than no_json_yet, with span
\* text J, every later push on the validator returns, until reset, the same
\* status with the same jsonText J and the same data, issues and message,
\* whatever chunks are appended; a stream reported invalid_json or
\* invalid_schema never becomes valid without a reset.
C24_ResultsAreSticky ==
    [][(SpanReported(validator.last) /\ validator'.op = "push") =>
          /\ validator'.last.status = validator.last.status
          /\ validator'.last.jsonText = validator.last.jsonText
          /\ validator'.last.data = validator.last.data
          /\ validator'.last.issues = validator.last.issues
          /\ validator'.last.message = validator.last.message
          /\ validator'.last.buffer = validator.last.buffer \o validator'.chunk]_vars

\* a whole document is appended after an invalid_schema result, and the
\* result stays
C24_Witness ==
    /\ validator.op = "push"
    /\ validator.last.status = "invalid_schema"
    /\ validator.last.jsonText = <<"[", "1", "]">>
    /\ validator.pushed
          = <<"[", "1", "]">> \o <<"a", "{", "\"", "a", "\"", ":", "1", "}", "a">>

\* the stream status that answers to a tunnel failure, NoFailure being success
StatusFor(failure) ==
    CASE failure = NoFailure -> "valid"
      [] failure.type = "no_json" -> "no_json_yet"
      [] failure.type = "invalid_json" -> "invalid_json"
      [] OTHER -> "invalid_schema"

\* result, of a validator, and failure, of a tunnel, say the same of a text
SameVerdict(result, failure) ==
    /\ result.status = StatusFor(failure)
    /\ result.status = "invalid_json" =>
          /\ result.hasJsonText = failure.hasJsonText
          /\ result.jsonText = failure.jsonText
          /\ result.message = failure.message
    /\ result.status = "invalid_schema" =>
          /\ result.jsonText = failure.jsonText
          /\ result.message = failure.message
          /\ result.issues = failure.issues

\* the first attempt of a run on tunnel t, its runner having returned raw
FirstAttempt(t, raw) == AfterRunner(t, StartRun(t, IdleRun), raw)

\* C25: the stream validator and the tunnel classify a text alike: a fresh
\* validator pushed the text T as its whole buffer returns no_json_yet,
\* invalid_json, invalid_schema or valid exactly when a tunnel attempt with
\* raw output T gives a no_json, invalid_json or schema failure or succeeds,
\* with the same jsonText, message and issues text.
C25_StreamAndTunnelAgree ==
    validator.last # NoResult =>
        \A o \in Options :
            /\ SameVerdict(FreshResult(validator.schema, validator.pushed),
                           failureFromRaw(createTunnel(validator.schema, o),
                                          validator.pushed))
            /\ SameVerdict(validator.last,
                           failureFromRaw(createTunnel(validator.schema, o),
                                          validator.pushed))
            /\ validator.last.status = "valid" <=>
                  FirstAttempt(createTunnel(validator.schema, o),
                               validator.pushed).pc = "resolved"
            /\ validator.last.status = "valid" =>
                  /\ FirstAttempt(createTunnel(validator.schema, o),
                                  validator.pushed).result = validator.last.data
                  /\ validator.last.jsonText
                        = extractAndParseJson(validator.pushed).jsonText

\* a text with a span the schema rejects, with its issues
C25_Witness ==
    /\ validator.last.status = "invalid_schema"
    /\ validator.last.issues # <<>>
    /\ validator.pushed = <<"{", "\"", "a", "\"", ":", "\"", "}", "\"", "}">>
    /\ validator.op = "push"

\* a text with a span that does not decode
C25_WitnessUndecoded ==
    /\ validator.last.status = "invalid_json"
    /\ validator.last.message # <<>>
    /\ validator.op = "push"

\* the depth before iteration k of the scan, 0 before the first
DepthBefore(trace, k) == IF k = 1 THEN 0 ELSE trace[k - 1].depth

\* the span ends with a closer of another kind than its opener
Mismatched(span) ==
    span.found /\ span.text[Len(span.text)] # CloserOf(Head(span.text))

\* C26: during the scan of extractJsonText the depth counter is at least 1
\* at every position after the start character until the span is returned,
\* and is never negative; one counter serves both kinds of bracket, a "}"
\* or "]" closing a level opened by "{" or "[" alike, so that a span
\* returned starts with an opener and ends with a closer whose kind need
\* not match; such a span is reported invalid_json by the decoder, not
\* no_json.
C26_DepthAndSingleCounter ==
    /\ extraction.fn = "extractJsonText" =>
          /\ \A k \in 1..Len(extraction.trace) :
                /\ extraction.trace[k].depth >= 0
                /\ extraction.trace[k].depth = 0
                      <=> (extraction.span.found /\ k = Len(extraction.trace))
                /\ extraction.trace[k].depth - DepthBefore(extraction.trace, k)
                      = IF ~OutsideLiterals(extraction.text,
                                            Least(OpenerPositions(extraction.text)),
                                            Least(OpenerPositions(extraction.text)) + k - 1)
                        THEN 0
                        ELSE IF CharAt(extraction.text,
                                       Least(OpenerPositions(extraction.text)) + k - 1)
                                   \in Openers THEN 1
                        ELSE IF CharAt(extraction.text,
                                       Least(OpenerPositions(extraction.text)) + k - 1)
                                   \in Closers THEN -1
                        ELSE 0
          /\ OpenerPositions(extraction.text) = {} <=> extraction.trace = <<>>
          /\ extraction.span.found =>
                /\ Len(extraction.trace) = Len(extraction.span.text)
                /\ Head(extraction.span.text) \in Openers
                /\ extraction.span.text[Len(extraction.span.text)] \in Closers
    /\ extraction.fn = "extractAndParseJson" =>
          (Mismatched(extractJsonText(extraction.text)) =>
              /\ extraction.result.reason = "invalid_json"
              /\ extraction.result.jsonText = extractJsonText(extraction.text).text)

\* a bracket closes the level a brace opened, inside the span of an outer
\* brace, and the depth goes 1, 2, 1, 0
C26_Witness ==
    /\ extraction.fn = "extractJsonText"
    /\ extraction.text = <<"a", "{", "{", "]", "}">>
    /\ extraction.span.found
    /\ [k \in 1..Len(extraction.trace) |-> extraction.trace[k].depth] = <<1, 2, 1, 0>>

\* a span that opens with a brace and closes with a bracket is handed to the
\* decoder
C26_WitnessMismatched ==
    /\ extraction.fn = "extractAndParseJson"
    /\ extraction.text = <<"{", "]">>
    /\ extraction.result.reason = "invalid_json"
    /\ extraction.result.jsonText = <<"{", "]">>

=============================================================================
